---- MODULE Spec2Model ----
(***************************************************************************)
(* A model of src/main.py: cross-lingual CBOW embeddings trained with      *)
(* negative sampling and a distribution (moment matching) loss.            *)
(*                                                                         *)
(* The module holds one state machine per component, each with its own     *)
(* specification over the shared variables:                                *)
(*   SpecCorpus  Corpus.__init__ / Corpus.read                             *)
(*   SpecBatch   generate_batch                                            *)
(*   SpecPrior   NegativeSamplingLoss.calc_prior / __call__                *)
(*   SpecDist    DistributionLoss.__call__ / update_stats                  *)
(*   SpecMain    main (one run), SpecDet (two runs side by side)           *)
(* Tensors are modelled by their shapes (sequences of naturals) and, where *)
(* a claim needs them, by exact integer encodings of their entries.        *)
(***************************************************************************)
EXTENDS Integers, Sequences, FiniteSets, TLC

VARIABLES
    corpus,   \* the Corpus object: window_size, w2i, freq, vocab_range
    reader,   \* the generator of Corpus.read that is being consumed
    order,    \* the languages whose read() was consumed to the end, in order
    gb,       \* the generator of generate_batch and what it yielded
    ns,       \* the NegativeSamplingLoss object and its last negative samples
    dl,       \* the DistributionLoss object and what its last call returned
    run       \* the runs of main

vars == <<corpus, reader, order, gb, ns, dl, run>>

(***************************************************************************)
(* Bounds of the model.                                                    *)
(***************************************************************************)
MaxWindow == 2
MaxLen == 2
MaxLines == 2

Windows == 1..MaxWindow

(* A component a specification does not exercise rests in this value.     *)
Idle == [pc |-> "unused"]

(***************************************************************************)
(* Corpus (src/main.py 60-115)                                             *)
(***************************************************************************)
UNK == 0
BOS == 1
EOS == 2

Langs == {"en", "it"}
Words == {"a", "b"}

RECURSIVE SeqsUpTo(_, _)
SeqsUpTo(S, n) ==
    IF n = 0 THEN {<<>>}
    ELSE LET shorter == SeqsUpTo(S, n - 1)
         IN  shorter \cup {Append(s, x) : s \in {t \in shorter : Len(t) = n - 1}, x \in S}

(* line.strip().split(): the whitespace separated tokens of one line.     *)
Lines == SeqsUpTo(Words, MaxLen)

(* w2i is kept as the sequence of its keys in id order: w2i[id + 1] is the *)
(* key whose id is `id` (a defaultdict whose factory is len(self.w2i)).    *)
HasKey(w2i, key) == \E i \in 1..Len(w2i) : w2i[i] = key

IdOf(w2i, key) == (CHOOSE i \in 1..Len(w2i) : w2i[i] = key) - 1

Intern(w2i, key) == IF HasKey(w2i, key) THEN w2i ELSE Append(w2i, key)

EmptyRange == [l \in {} |-> <<0, 0>>]

CorpusInit(window_size) ==
    [window_size |-> window_size,
     w2i         |-> <<"<unk>", "<s>", "</s>">>,
     freq        |-> [i \in {UNK, BOS, EOS} |-> 0],
     vocab_range |-> EmptyRange]

(* e.g., en:apple *)
Key(lang, w) == lang \o ":" \o w

(* indices = [self.w2i[lang + ':' + w] for w in words], left to right.     *)
RECURSIVE InternAll(_, _, _)
InternAll(w2i, lang, words) ==
    IF words = <<>> THEN [w2i |-> w2i, indices |-> <<>>]
    ELSE LET w2i1 == Intern(w2i, Key(lang, Head(words)))
             idx  == IdOf(w2i1, Key(lang, Head(words)))
             rest == InternAll(w2i1, lang, Tail(words))
         IN  [w2i |-> rest.w2i, indices |-> <<idx>> \o rest.indices]

(* for idx in indices: self.freq[idx] += 1   (freq is a defaultdict(int))  *)
RECURSIVE CountAll(_, _)
CountAll(freq, indices) ==
    IF indices = <<>> THEN freq
    ELSE LET idx == Head(indices)
             old == IF idx \in DOMAIN freq THEN freq[idx] ELSE 0
             f1  == [i \in DOMAIN freq \cup {idx} |->
                        IF i = idx THEN old + 1 ELSE freq[i]]
         IN  CountAll(f1, Tail(indices))

(* if len(words) < 2 * self.window_size - 1: continue *)
TooShortOff(words, window_size) == Len(words) <= 2 * window_size - 1

TooShort(words, window_size) == Len(words) < 2 * window_size - 1

(* vocab_start = len(self.w2i) *)
VocabStartZero(c) == 0

VocabStart(c) == Len(c.w2i)

VocabSize(c) == Len(c.w2i)

ReaderIdle ==
    [pc |-> "idle", lang |-> "", count |-> TRUE, vocab_start |-> 0, nlines |-> 0,
     words |-> <<>>, yielded |-> FALSE, out |-> <<>>]

(* The first next() of read(path, lang, count): the file is opened and     *)
(* vocab_start is taken.  The languages are read one after the other, as   *)
(* main does with list(corpus.read(...)).                                  *)
ReadOpen(lang, count) ==
    /\ reader.pc = "idle"
    /\ lang \notin DOMAIN corpus.vocab_range
    /\ reader' = [pc |-> "reading", lang |-> lang, count |-> count,
                  vocab_start |-> VocabStart(corpus), nlines |-> 0,
                  words |-> <<>>, yielded |-> FALSE, out |-> <<>>]
    /\ UNCHANGED <<corpus, order, gb, ns, dl, run>>

(* The body of the loop for a line that is long enough: its words are     *)
(* interned under the language's prefix, counted, and the sentence is      *)
(* framed by the two sentinels.                                            *)
AcceptLine(c, lang, count, words) ==
    LET r == InternAll(c.w2i, lang, words)
    IN  [corpus |-> [c EXCEPT !.w2i = r.w2i,
                              !.freq = IF count THEN CountAll(@, r.indices) ELSE @],
         out    |-> <<BOS>> \o r.indices \o <<EOS>>]

(* self.vocab_range[lang] = (vocab_start, vocab_end) *)
RecordRange(c, lang, vocab_start) ==
    [c EXCEPT !.vocab_range =
        [l \in DOMAIN @ \cup {lang} |->
            IF l = lang THEN <<vocab_start, VocabSize(c)>> ELSE @[l]]]

(* One iteration of `for line in f`: the line is skipped, or interned,     *)
(* counted and yielded between the two sentinels.                          *)
ReadLine(words) ==
    /\ reader.pc = "reading"
    /\ reader.nlines < MaxLines
    /\ IF TooShort(words, corpus.window_size)
       THEN /\ reader' = [reader EXCEPT !.nlines = @ + 1, !.words = words,
                                        !.yielded = FALSE, !.out = <<>>]
            /\ UNCHANGED corpus
       ELSE LET r == AcceptLine(corpus, reader.lang, reader.count, words)
            IN  /\ corpus' = r.corpus
                /\ reader' = [reader EXCEPT !.nlines = @ + 1, !.words = words,
                                  !.yielded = TRUE, !.out = r.out]
    /\ UNCHANGED <<order, gb, ns, dl, run>>

(* The file is exhausted: f.close() and the vocabulary range is recorded.  *)
ReadEof ==
    /\ reader.pc = "reading"
    /\ corpus' = RecordRange(corpus, reader.lang, reader.vocab_start)
    /\ reader' = ReaderIdle
    /\ order' = Append(order, reader.lang)
    /\ UNCHANGED <<gb, ns, dl, run>>

(* list(corpus.read(path, lang)): the generator consumed to its end over   *)
(* the lines of a file, as main does for each language.                    *)
RECURSIVE ReadLines(_, _, _, _)
ReadLines(c, lang, count, lines) ==
    IF lines = <<>> THEN [corpus |-> c, sents |-> <<>>]
    ELSE IF TooShort(Head(lines), c.window_size)
         THEN ReadLines(c, lang, count, Tail(lines))
         ELSE LET r    == AcceptLine(c, lang, count, Head(lines))
                  rest == ReadLines(r.corpus, lang, count, Tail(lines))
              IN  [corpus |-> rest.corpus, sents |-> <<r.out>> \o rest.sents]

ReadAll(c, lang, count, lines) ==
    LET vocab_start == VocabStart(c)
        r == ReadLines(c, lang, count, lines)
    IN  [corpus |-> RecordRange(r.corpus, lang, vocab_start), sents |-> r.sents]

InitCorpus ==
    /\ \E w \in Windows : corpus = CorpusInit(w)
    /\ reader = ReaderIdle
    /\ order = <<>>
    /\ gb = Idle /\ ns = Idle /\ dl = Idle /\ run = Idle

NextCorpus ==
    \/ \E lang \in Langs, count \in BOOLEAN : ReadOpen(lang, count)
    \/ \E words \in Lines : ReadLine(words)
    \/ ReadEof

SpecCorpus == InitCorpus /\ [][NextCorpus]_vars

(* The ids of a half-open range <<start, end>>.                            *)
RangeIds(r) == {i \in 0..(r[2] - 1) : r[1] <= i}

(* C1: after read() was consumed to the end for one language and then for *)
(* another, the two recorded ranges are disjoint and, with the sentinel    *)
(* ids {0,1,2}, cover exactly [0, vocabulary size).                        *)
C1_RangesPartition ==
    (Len(order) = 2 /\ reader.pc = "idle") =>
        LET ra == RangeIds(corpus.vocab_range[order[1]])
            rb == RangeIds(corpus.vocab_range[order[2]])
        IN  /\ ra \cap rb = {}
            /\ ra \cup rb \cup {UNK, BOS, EOS} = 0..(VocabSize(corpus) - 1)
            /\ (ra \cup rb) \cap {UNK, BOS, EOS} = {}

(* Both languages read, each with ids of its own, one line skipped.        *)
C1_Witness ==
    /\ Len(order) = 2 /\ reader.pc = "idle"
    /\ \A l \in Langs : RangeIds(corpus.vocab_range[l]) # {}
    /\ VocabSize(corpus) >= 6

(* C7: read yields a sentence for a line iff the line has at least         *)
(* 2*window-1 tokens; a yielded sentence has the line's token count + 2    *)
(* ids, starts with BOS and ends with EOS; a skipped line interns no id    *)
(* and changes no frequency.                                               *)
C7_ReadLine ==
    [][(reader.pc = "reading" /\ reader'.pc = "reading"
            /\ reader'.nlines = reader.nlines + 1) =>
        LET words == reader'.words
            out   == reader'.out
        IN  /\ reader'.yielded <=> Len(words) >= 2 * corpus.window_size - 1
            /\ reader'.yielded =>
                  /\ Len(out) = Len(words) + 2
                  /\ out[1] = BOS
                  /\ out[Len(out)] = EOS
            /\ ~reader'.yielded =>
                  /\ corpus'.w2i = corpus.w2i
                  /\ corpus'.freq = corpus.freq]_vars

(* A line was skipped after an earlier line of the same file was yielded.  *)
C7_Witness ==
    /\ reader.pc = "reading" /\ reader.nlines >= 2 /\ ~reader.yielded
    /\ TooShort(reader.words, corpus.window_size)
    /\ VocabSize(corpus) > reader.vocab_start

(***************************************************************************)
(* generate_batch (src/main.py 118-137)                                    *)
(***************************************************************************)
MaxBody == 2
MaxSents == 2
MaxBatch == 3
MaxBWindow == 2

(* Sentences as read() yields them: [BOS] + indices + [EOS].               *)
Sentences == {<<BOS>> \o b \o <<EOS>> : b \in SeqsUpTo({3, 4}, MaxBody)}

SentLists == SeqsUpTo(Sentences, MaxSents)

(* The (context, target) pairs of one sentence:                            *)
(*   for pos in range(window, l - window):                                 *)
(*       context = sent[pos - window:pos] + sent[pos + 1:pos + window + 1] *)
(*       target  = sent[pos]                                               *)
(* pos is 0-based, SubSeq 1-based.                                         *)
SentPairs(sent, window) ==
    LET l == Len(sent)
        n == IF l - window > window THEN l - 2 * window ELSE 0
    IN  [j \in 1..n |->
            LET pos == window + j - 1
            IN  [context |-> SubSeq(sent, pos - window + 1, pos)
                                 \o SubSeq(sent, pos + 2, pos + window + 1),
                 target  |-> sent[pos + 1]]]

(* The pairs of `for sent in sents`, in the order the loops visit them.    *)
RECURSIVE AllPairs(_, _)
AllPairs(sents, window) ==
    IF sents = <<>> THEN <<>>
    ELSE SentPairs(Head(sents), window) \o AllPairs(Tail(sents), window)

(* if count >= batch_size: yield *)
BatchFullOff(count, batch_size) == count > batch_size

BatchFull(count, batch_size) == count >= batch_size

(* The generator runs from where it stands (k pairs visited, the lists it  *)
(* holds) to its next yield or to the end of its loops.                    *)
RECURSIVE RunBatch(_, _, _, _, _, _)
RunBatch(pairs, k, contexts, targets, count, batch_size) ==
    IF k = Len(pairs)
    THEN [k |-> k, contexts |-> contexts, targets |-> targets, count |-> count,
          yielded |-> FALSE]
    ELSE LET c1 == Append(contexts, pairs[k + 1].context)
             t1 == Append(targets, pairs[k + 1].target)
             n1 == count + 1
         IN  IF BatchFull(n1, batch_size)
             THEN [k |-> k + 1, contexts |-> c1, targets |-> t1, count |-> n1,
                   yielded |-> TRUE]
             ELSE RunBatch(pairs, k + 1, c1, t1, n1, batch_size)

(* generate_batch(sents, window, batch_size): nothing runs until the first *)
(* next().                                                                 *)
BatchGenInit(sents, window, batch_size) ==
    [pc |-> "start", sents |-> sents, window |-> window,
     batch_size |-> batch_size, k |-> 0,
     contexts |-> <<>>, targets |-> <<>>, count |-> 0,
     out |-> <<>>, emitted |-> 0]

(* One next() on the generator.  At the first one the lists are empty and  *)
(* count is 0; after a yield the generator resumes at                      *)
(* `contexts, targets, count = [], [], 0`.                                 *)
BatchGenNext(g) ==
    LET r == RunBatch(AllPairs(g.sents, g.window), g.k, <<>>, <<>>, 0, g.batch_size)
    IN  IF r.yielded
        THEN [g EXCEPT !.pc = "yielded", !.k = r.k,
                       !.contexts = r.contexts, !.targets = r.targets,
                       !.count = r.count,
                       !.out = <<[contexts |-> r.contexts, targets |-> r.targets]>>,
                       !.emitted = @ + 1]
        ELSE [g EXCEPT !.pc = "done", !.k = r.k,
                       !.contexts = r.contexts, !.targets = r.targets,
                       !.count = r.count, !.out = <<>>]

BatchNext ==
    /\ gb.pc \in {"start", "yielded"}
    /\ gb' = BatchGenNext(gb)
    /\ UNCHANGED <<corpus, reader, order, ns, dl, run>>

InitBatch ==
    /\ \E sents \in SentLists, window \in 0..MaxBWindow, batch_size \in 1..MaxBatch :
          gb = BatchGenInit(sents, window, batch_size)
    /\ corpus = Idle /\ reader = Idle /\ order = <<>>
    /\ ns = Idle /\ dl = Idle /\ run = Idle

NextBatch == BatchNext

SpecBatch == InitBatch /\ [][NextBatch]_vars

(* The valid center positions of a sentence list: those with `window` ids  *)
(* on each side.                                                           *)
RECURSIVE ValidPositions(_, _)
ValidPositions(sents, window) ==
    IF sents = <<>> THEN 0
    ELSE Cardinality({p \in 1..Len(Head(sents)) :
                          p - window >= 1 /\ p + window <= Len(Head(sents))})
         + ValidPositions(Tail(sents), window)

(* C2: every batch generate_batch emits holds exactly batch_size pairs,    *)
(* and when the generator ends it has emitted                              *)
(* floor(valid positions / batch_size) batches: none when there are fewer  *)
(* than batch_size positions, and never a trailing partial batch.          *)
C2_FullBatchesOnly ==
    /\ gb.pc = "yielded" =>
          /\ Len(gb.out[1].contexts) = gb.batch_size
          /\ Len(gb.out[1].targets) = gb.batch_size
    /\ gb.pc = "done" =>
          gb.emitted = ValidPositions(gb.sents, gb.window) \div gb.batch_size
    /\ gb.pc = "done" /\ ValidPositions(gb.sents, gb.window) < gb.batch_size =>
          gb.emitted = 0

(* The generator ended after a batch, leaving a partial batch unemitted.   *)
C2_Witness ==
    /\ gb.pc = "done" /\ gb.emitted >= 1 /\ gb.count >= 1
    /\ gb.batch_size >= 2 /\ Len(gb.sents) >= 2

(***************************************************************************)
(* NegativeSamplingLoss (src/main.py 140-180)                              *)
(***************************************************************************)
MaxPLen == 3
MaxPLines == 1
MaxSample == 2
MaxB == 2

(* The corpus files the sampler's frequency tables are read from.          *)
PriorFiles == SeqsUpTo(SeqsUpTo(Words, MaxPLen), MaxPLines)

(* freq.items(): the (id, count) pairs in insertion order.  The sentinels  *)
(* are inserted by __init__ and every other id when it is first counted,   *)
(* which is the order of the ids.                                          *)
RECURSIVE ItemsFrom(_, _)
ItemsFrom(freq, i) ==
    IF \A j \in DOMAIN freq : j < i THEN <<>>
    ELSE IF i \in DOMAIN freq THEN <<<<i, freq[i]>>>> \o ItemsFrom(freq, i + 1)
         ELSE ItemsFrom(freq, i + 1)

Items(freq) == ItemsFrom(freq, 0)

(* sorted(items, key=lambda t: t[1]): a stable sort on the count.          *)
RECURSIVE InsertByCount(_, _)
InsertByCount(sorted, item) ==
    IF sorted = <<>> THEN <<item>>
    ELSE IF item[2] < Head(sorted)[2] THEN <<item>> \o sorted
         ELSE <<Head(sorted)>> \o InsertByCount(Tail(sorted), item)

RECURSIVE SortedByCount(_)
SortedByCount(items) ==
    IF items = <<>> THEN <<>>
    ELSE InsertByCount(SortedByCount(SubSeq(items, 1, Len(items) - 1)),
                       items[Len(items)])

(* v ** 0.75, kept exactly by its fourth power v^3: a tensor entry x is    *)
(* held as x^4.                                                            *)
Pow075(v) == v * v * v

(* t[:end] and t[start:] of a one-dimensional tensor (the bounds clamp).   *)
SliceTo(t, end) == SubSeq(t, 1, IF end < Len(t) THEN end ELSE Len(t))

SliceFrom(t, start) == SubSeq(t, start + 1, Len(t))

(* t /= t.sum(): entry j becomes t[j] / sum.  The entries stay held by     *)
(* their fourth powers `w`; when the sum is 0 (an empty or all-zero slice) *)
(* the division leaves no probability vector (nan entries, or none).       *)
Normalized(t) == [w |-> t, nan |-> \A j \in 1..Len(t) : t[j] = 0]

(* calc_prior(freq, ranges, src, trg) *)
CalcPrior(freq, ranges, src, trg) ==
    LET sorted == SortedByCount(Items(freq))
        p      == [j \in 1..Len(sorted) |-> Pow075(sorted[j][2])]
    IN  [p          |-> p,
         p_src      |-> Normalized(SliceTo(p, ranges[src][2])),
         p_trg      |-> Normalized(SliceFrom(p, ranges[trg][1])),
         offset_trg |-> ranges[trg][1]]

(* NegativeSamplingLoss(freq, ranges, src, trg, sample_size) *)
NSInit(freq, ranges, src, trg, sample_size) ==
    LET pr == CalcPrior(freq, ranges, src, trg)
    IN  [pc |-> "ready", freq |-> freq, ranges |-> ranges, src |-> src, trg |-> trg,
         p |-> pr.p, p_src |-> pr.p_src, p_trg |-> pr.p_trg,
         offset_trg |-> pr.offset_trg, sample_size |-> sample_size,
         B |-> 0, is_src |-> TRUE, targets_neg |-> <<>>]

(* torch.multinomial(p, n, replacement=True) returns n positions of p,     *)
(* each one of positive probability; it raises on an invalid p.            *)
MultinomialFails(pn) == pn.nan

Multinomial(pn, n) ==
    [1..n -> {j - 1 : j \in {k \in 1..Len(pn.w) : pn.w[k] > 0}}]

(* t.view((B, -1)) of a tensor of B * k entries: B rows of k.              *)
View(t, B) ==
    LET k == Len(t) \div B
    IN  [r \in 1..B |-> SubSeq(t, (r - 1) * k + 1, r * k)]

(* torch.cat([a, b], dim=1) *)
Cat1(a, b) == [r \in 1..Len(a) |-> a[r] \o b[r]]

(* loss_func(model, contexts, targets, src): the negative targets drawn    *)
(* for a batch of B contexts.  The scores and the loss value are floating  *)
(* point and are not modelled.                                             *)
NSCall(src, B) ==
    /\ ns.pc \in {"ready", "called"}
    /\ LET p_mono  == IF src THEN ns.p_src ELSE ns.p_trg
           p_cross == IF src THEN ns.p_trg ELSE ns.p_src
           n_neg   == B * ns.sample_size
       IN  IF MultinomialFails(p_mono) \/ MultinomialFails(p_cross)
           THEN ns' = [ns EXCEPT !.pc = "error", !.B = B, !.is_src = src,
                                 !.targets_neg = <<>>]
           ELSE \E mono \in Multinomial(p_mono, n_neg),
                   cross \in Multinomial(p_cross, n_neg) :
                    ns' = [ns EXCEPT !.pc = "called", !.B = B, !.is_src = src,
                              !.targets_neg = Cat1(View(mono, B), View(cross, B))]
    /\ UNCHANGED <<corpus, reader, order, gb, dl, run>>

(* The two corpora are read as main reads them, then the sampler is built. *)
InitPrior ==
    /\ \E window \in Windows, fs \in PriorFiles, ft \in PriorFiles,
          sample_size \in 1..MaxSample :
          LET r1 == ReadAll(CorpusInit(window), "en", TRUE, fs)
              r2 == ReadAll(r1.corpus, "it", TRUE, ft)
          IN  /\ corpus = r2.corpus
              /\ ns = NSInit(r2.corpus.freq, r2.corpus.vocab_range, "en", "it",
                             sample_size)
    /\ reader = ReaderIdle /\ order = <<"en", "it">>
    /\ gb = Idle /\ dl = Idle /\ run = Idle

NextPrior == \E src \in BOOLEAN, B \in 1..MaxB : NSCall(src, B)

SpecPrior == InitPrior /\ [][NextPrior]_vars

(* C6: of the negative targets drawn for a batch, the first sample_size    *)
(* of each row are ids of the side's own language range and the other      *)
(* sample_size are ids of the other language's range.                      *)
C6_NegativesInRanges ==
    ns.pc = "called" =>
        LET own   == IF ns.is_src THEN ns.src ELSE ns.trg
            other == IF ns.is_src THEN ns.trg ELSE ns.src
        IN  \A r \in 1..ns.B :
                /\ Len(ns.targets_neg[r]) = 2 * ns.sample_size
                /\ \A j \in 1..ns.sample_size :
                      /\ ns.targets_neg[r][j] \in RangeIds(ns.ranges[own])
                      /\ ns.targets_neg[r][ns.sample_size + j]
                             \in RangeIds(ns.ranges[other])

(* C10: the prior is indexed by token id: position i of p holds            *)
(* freq(i)^0.75, p_src holds the weights of the source ids and p_trg those *)
(* of the target ids, each at the id's place in its slice.                 *)
C10_PriorIndexedById ==
    /\ Len(ns.p) = Cardinality(DOMAIN ns.freq)
    /\ \A i \in DOMAIN ns.freq : ns.p[i + 1] = Pow075(ns.freq[i])
    /\ \A i \in RangeIds(ns.ranges[ns.src]) : ns.p_src.w[i + 1] = Pow075(ns.freq[i])
    /\ \A i \in RangeIds(ns.ranges[ns.trg]) :
          ns.p_trg.w[i - ns.offset_trg + 1] = Pow075(ns.freq[i])

(***************************************************************************)
(* Tensor shapes.  A shape is the sequence of a tensor's dimensions.       *)
(***************************************************************************)
RECURSIVE Numel(_)
Numel(s) == IF s = <<>> THEN 1 ELSE Head(s) * Numel(Tail(s))

(* t.squeeze(dim=0): the first dimension is dropped when it is 1.          *)
Squeeze0(s) == IF s # <<>> /\ Head(s) = 1 THEN Tail(s) ELSE s

(* t.squeeze(): every dimension of size 1 is dropped.                      *)
RECURSIVE SqueezeAll(_)
SqueezeAll(s) ==
    IF s = <<>> THEN <<>>
    ELSE IF Head(s) = 1 THEN SqueezeAll(Tail(s))
         ELSE <<Head(s)>> \o SqueezeAll(Tail(s))

(* nn.Embedding(vocab_size, dim)(ids): one vector of `dim` per id.         *)
EmbeddingShape(ids, dim) == ids \o <<dim>>

(* t.sum(dim=0) *)
SumDim0(s) == Tail(s)

(* Whether a tensor of shape b broadcasts to shape a, as an in-place       *)
(* a += b needs: b's dimensions, aligned at the right, are each 1 or a's.  *)
BroadcastsTo(b, a) ==
    /\ Len(b) <= Len(a)
    /\ \A k \in 1..Len(b) :
          LET db == b[Len(b) - k + 1]
              da == a[Len(a) - k + 1]
          IN  db = 1 \/ db = da

(* Whether a - b (or a * b) is defined: aligned at the right, the          *)
(* dimensions are equal or one of them is 1.                               *)
Broadcastable(a, b) ==
    \A k \in 1..(IF Len(a) < Len(b) THEN Len(a) ELSE Len(b)) :
        LET da == a[Len(a) - k + 1]
            db == b[Len(b) - k + 1]
        IN  da = db \/ da = 1 \/ db = 1

(***************************************************************************)
(* DistributionLoss (src/main.py 183-233)                                  *)
(***************************************************************************)
DIM_EMB == 50
ScountCap == 100000
(* lambda_m = 0.2 and lambda_v = 0.1, in tenths.                           *)
LambdaM == 2
LambdaV == 1

MaxCalls == 4
MaxSq == 1

Sides == {"src", "trg"}

(* The embedding dimension (main builds the model and the loss with        *)
(* DIM_EMB), and the window sizes and batch sizes of the contexts handed   *)
(* to the loss.  A window of 30000 lets a few updates reach the cap of the *)
(* sample count.                                                           *)
DistDims == {DIM_EMB}
DistWindows == {1, 2, 30000}
DistBatches == {1, 2}

Min(a, b) == IF a < b THEN a ELSE b

(* DistributionLoss(dim_emb) *)
DistInit(dim_emb) ==
    [pc |-> "ready", dim_emb |-> dim_emb,
     m |-> [l \in Sides |-> <<dim_emb>>],
     v |-> [l \in Sides |-> <<dim_emb, dim_emb>>],
     scount |-> [l \in Sides |-> 0],
     updated |-> [l \in Sides |-> FALSE],
     ret |-> <<>>, ncalls |-> 0,
     last |-> [lang |-> "src", x |-> <<>>, prev |-> 0]]

(* self.scount[lang] = min(100000, self.scount[lang] + N) *)
NextScountNoCap(scount, N) == scount + N

NextScount(scount, N) == Min(ScountCap, scount + N)

(* update_stats(model, x, lang) on contexts of shape x.  The result holds  *)
(* the object's fields after the call and whether the call raised; a       *)
(* raise leaves the assignments made before it in place.                   *)
UpdateStats(d, x, lang) ==
    LET xs    == Squeeze0(x)
        N     == Head(xs)
        vec   == SqueezeAll(SumDim0(EmbeddingShape(xs, d.dim_emb)))
        \* new_m = vec; new_m += self.scount[lang] * self.m[lang]
        mOk   == BroadcastsTo(d.m[lang], vec)
        \* self.m[lang] = new_m / (self.scount[lang] + N)
        d1    == [d EXCEPT !.m[lang] = vec]
        \* diff = (self.m[lang] - vec).view((-1, 1)); new_v = diff.mul(diff.t())
        diff  == <<Numel(vec), 1>>
        new_v == <<Numel(vec), Numel(vec)>>
        \* new_v += self.scount[lang] * self.v[lang]
        vOk   == BroadcastsTo(d.v[lang], new_v)
    IN  IF ~mOk THEN [d |-> d, raised |-> TRUE]
        ELSE IF ~vOk THEN [d |-> d1, raised |-> TRUE]
        ELSE [d |-> [d1 EXCEPT !.v[lang] = new_v,
                               !.scount[lang] = NextScount(@, N),
                               !.updated[lang] = TRUE],
              raised |-> FALSE]

(* if not (self.updated['src'] and self.updated['trg']): return None *)
Warm(updated) == updated["src"] /\ updated["trg"]

(* The loss, times 20:                                                     *)
(*   lambda_m * (m_src - m_trg).pow(2).sum() / 2                           *)
(* + lambda_v * (v_src - v_trg).pow(2).sum() / 2                           *)
(* for the sums of squares sqm and sqv.                                    *)
Loss(sqm, sqv) == LambdaM * sqm + LambdaV * sqv

(* loss_func_dist(model, x, src): the statistics are updated, then the     *)
(* call returns None (ret = <<>>) or the loss (ret = <<loss>>), or raises. *)
(* A sum of squares is some number >= 0.                                   *)
DistCall(src, x) ==
    /\ dl.pc \in {"ready", "returned"}
    /\ dl.ncalls < MaxCalls
    /\ LET lang == IF src THEN "src" ELSE "trg"
           u    == UpdateStats(dl, x, lang)
           d1   == [u.d EXCEPT !.ncalls = @ + 1,
                               !.last = [lang |-> lang, x |-> x,
                                         prev |-> dl.scount[lang]]]
       IN  IF u.raised
           THEN dl' = [d1 EXCEPT !.pc = "raised", !.ret = <<>>]
           ELSE IF ~Warm(d1.updated)
           THEN dl' = [d1 EXCEPT !.pc = "returned", !.ret = <<>>]
           ELSE IF ~(Broadcastable(d1.m["src"], d1.m["trg"])
                        /\ Broadcastable(d1.v["src"], d1.v["trg"]))
           THEN dl' = [d1 EXCEPT !.pc = "raised", !.ret = <<>>]
           ELSE \E sqm \in 0..MaxSq, sqv \in 0..MaxSq :
                    dl' = [d1 EXCEPT !.pc = "returned", !.ret = <<Loss(sqm, sqv)>>]
    /\ UNCHANGED <<corpus, reader, order, gb, ns, run>>

InitDist ==
    /\ \E dim_emb \in DistDims : dl = DistInit(dim_emb)
    /\ corpus = Idle /\ reader = Idle /\ order = <<>>
    /\ gb = Idle /\ ns = Idle /\ run = Idle

NextDist ==
    \E src \in BOOLEAN, B \in DistBatches, w \in DistWindows :
        DistCall(src, <<B, 2 * w>>)

SpecDist == InitDist /\ [][NextDist]_vars

(* C3: a call returns None exactly when, after its own update_stats, one   *)
(* of the two languages was never updated; once both were updated a call   *)
(* returns a scalar >= 0.                                                  *)
C3_NoneUntilBothUpdated ==
    dl.ncalls > 0 =>
        /\ dl.pc = "returned"
        /\ dl.ret = <<>> <=> ~(dl.updated["src"] /\ dl.updated["trg"])
        /\ (dl.updated["src"] /\ dl.updated["trg"]) =>
              (dl.ret # <<>> /\ dl.ret[1] >= 0)

(* C4: each language's sample count is within 0..100000, no update lowers  *)
(* it, and an update that finds it at 100000 leaves it there.              *)
C4_ScountCapped ==
    /\ \A l \in Sides : dl.scount[l] \in 0..100000
    /\ dl.ncalls > 0 =>
          /\ dl.scount[dl.last.lang] >= dl.last.prev
          /\ dl.last.prev = 100000 => dl.scount[dl.last.lang] = 100000

(* An update was applied to a count that stood at the cap.                 *)
C4_Witness ==
    /\ dl.pc = "returned" /\ dl.ncalls > 0
    /\ dl.last.prev = 100000 /\ dl.scount[dl.last.lang] = 100000

(* C8: a call with the contexts of a batch of any size B >= 1 adds         *)
(* 2 x window to the language's sample count (up to the cap) and leaves    *)
(* the running mean a vector of dimension D and the running covariance a   *)
(* D x D matrix.                                                           *)
C8_WindowSizedUpdate ==
    dl.ncalls > 0 =>
        LET lang == dl.last.lang
            two_window == dl.last.x[2]
        IN  /\ dl.scount[lang] = Min(100000, dl.last.prev + two_window)
            /\ dl.m[lang] = <<dl.dim_emb>>
            /\ dl.v[lang] = <<dl.dim_emb, dl.dim_emb>>

(***************************************************************************)
(* main (src/main.py 245-302)                                              *)
(***************************************************************************)
MaxSeed == 1
MaxTorch == 1
MaxIters == 2
MaxMainBatch == 2

(* The corpus files of a run, one per language; each holds a line that is *)
(* long enough, so that both languages have a vocabulary.                  *)
MainFiles ==
    {<<<<"a">>>>, <<<<"a", "b">>>>, <<<<"a", "b">>, <<"b">>>>,
     <<<<"b", "b">>, <<>>, <<"a", "b">>>>}

(* The window size of the runs.                                            *)
MainWindows == {1}

(* A random generator is kept by its state; a draw reads the state and     *)
(* steps it.  np.random.seed(s) sets numpy's generator from the seed.      *)
RngNext(s) == (5 * s + 3) % 8

SeedRng(seed) == seed % 8

(* The states torch's CPU generator may start a process in: the program    *)
(* never calls torch.manual_seed, and torch.cuda.manual_seed (taken only   *)
(* with CUDA) does not set the CPU generator.                              *)
TorchStates == 0..MaxTorch

(* np.random.shuffle(list): Fisher-Yates from the last place down.         *)
RECURSIVE ShuffleFrom(_, _, _)
ShuffleFrom(list, i, rng) ==
    IF i < 2 THEN [list |-> list, rng |-> rng]
    ELSE LET j == (rng % i) + 1
             swapped == [list EXCEPT ![i] = list[j], ![j] = list[i]]
         IN  ShuffleFrom(swapped, i - 1, RngNext(rng))

Shuffle(list, rng) == ShuffleFrom(list, Len(list), rng)

SideOrder == <<"src", "trg">>

(* The operations main performs on one batch, in program order.            *)
BatchOps == <<"zero_grad", "ns_loss", "dist_loss", "backward", "opt_step">>

(* A process before main(args) runs.                                       *)
RunInit(seed, batch_size, window_size, n_iters, file_src, file_trg) ==
    [pc |-> "start", seed |-> seed, batch_size |-> batch_size,
     window_size |-> window_size, n_iters |-> n_iters,
     file_src |-> file_src, file_trg |-> file_trg,
     np_rng |-> 0, torch_rng |-> 0,
     corpus |-> Idle, sents |-> [l \in Sides |-> <<>>],
     ns |-> Idle, dist |-> Idle, params |-> <<>>,
     ITER |-> 0, batches |-> [l \in Sides |-> Idle],
     batch |-> [l \in Sides |-> <<>>], side |-> 0,
     steps |-> 0, opt_steps |-> 0, trace |-> <<>>, output |-> <<>>]

(* The runs are separate processes that share nothing, so one schedule     *)
(* stands for all: a run moves once the runs before it have ended.         *)
Ended(rec) == rec.pc \in {"done", "crashed"}

MayMove(r) == \A q \in DOMAIN run : q < r => Ended(run[q])

(* for batch, src in [(batch_src, True), (batch_trg, False)]:              *)
(*     if batch is None: continue                                          *)
(* The place the loop reaches from its side number `from`: the first       *)
(* batch that is present, or the next zip_longest step.                    *)
RECURSIVE SidePc(_, _)
SidePc(batch, from) ==
    IF from > 2 THEN [pc |-> "zip", side |-> 0]
    ELSE IF batch[SideOrder[from]] # <<>> THEN [pc |-> "zero_grad", side |-> from]
         ELSE SidePc(batch, from + 1)

(* main, lines 245-274: the seed is set, both corpora are read, the model  *)
(* (its two embedding tables drawn from torch's generator), the two losses *)
(* and the optimizer are built.                                            *)
MainStart(r) ==
    /\ UNCHANGED <<corpus, reader, order, gb, ns, dl>>
    /\ MayMove(r) /\ run[r].pc = "start"
    /\ \E t \in TorchStates :
          LET rec == run[r]
              r1  == ReadAll(CorpusInit(rec.window_size), "en", TRUE, rec.file_src)
              r2  == ReadAll(r1.corpus, "it", TRUE, rec.file_trg)
          IN  run' = [run EXCEPT ![r] =
                  [rec EXCEPT !.pc = "epoch",
                       !.np_rng = SeedRng(rec.seed),
                       !.corpus = r2.corpus,
                       !.sents = [src |-> r1.sents, trg |-> r2.sents],
                       !.params = <<[init |-> t, vocab_size |-> VocabSize(r2.corpus)]>>,
                       !.torch_rng = RngNext(RngNext(t)),
                       !.ns = NSInit(r2.corpus.freq, r2.corpus.vocab_range,
                                     "en", "it", 5),
                       !.dist = DistInit(DIM_EMB)]]

(* for ITER in range(args.n_iters): both sentence lists are shuffled in    *)
(* place and a batch generator is made over each.                          *)
EpochBegin(r) ==
    /\ UNCHANGED <<corpus, reader, order, gb, ns, dl>>
    /\ MayMove(r) /\ run[r].pc = "epoch" /\ run[r].ITER < run[r].n_iters
    /\ LET rec == run[r]
           s1  == Shuffle(rec.sents["src"], rec.np_rng)
           s2  == Shuffle(rec.sents["trg"], s1.rng)
       IN  run' = [run EXCEPT ![r] =
               [rec EXCEPT !.pc = "zip", !.np_rng = s2.rng,
                    !.sents = [src |-> s1.list, trg |-> s2.list],
                    !.batches =
                        [src |-> BatchGenInit(s1.list, rec.window_size, rec.batch_size),
                         trg |-> BatchGenInit(s2.list, rec.window_size, rec.batch_size)],
                    !.steps = 0, !.opt_steps = 0, !.trace = <<>>]]

(* One step of zip_longest(batches_src, batches_trg): each generator that  *)
(* has not ended is asked for its next batch, an ended one gives None; the *)
(* loop ends when both have ended, and the epoch's loss is printed.        *)
ZipNext(r) ==
    /\ UNCHANGED <<corpus, reader, order, gb, ns, dl>>
    /\ MayMove(r) /\ run[r].pc = "zip"
    /\ LET rec == run[r]
           nxt == [l \in Sides |->
                      IF rec.batches[l].pc = "done" THEN rec.batches[l]
                      ELSE BatchGenNext(rec.batches[l])]
           b   == [l \in Sides |-> nxt[l].out]
       IN  IF \A l \in Sides : b[l] = <<>>
           THEN run' = [run EXCEPT ![r] =
                    [rec EXCEPT !.pc = "epoch", !.batches = nxt, !.batch = b,
                                !.ITER = @ + 1, !.trace = <<>>]]
           ELSE run' = [run EXCEPT ![r] =
                    [rec EXCEPT !.pc = SidePc(b, 1).pc, !.side = SidePc(b, 1).side,
                                !.batches = nxt, !.batch = b,
                                !.steps = @ + 1, !.trace = <<>>]]

(* model.zero_grad() *)
ZeroGrad(r) ==
    /\ UNCHANGED <<corpus, reader, order, gb, ns, dl>>
    /\ MayMove(r) /\ run[r].pc = "zero_grad"
    /\ run' = [run EXCEPT ![r] =
           [@ EXCEPT !.pc = "ns_loss",
                     !.trace = Append(@, <<SideOrder[run[r].side], "zero_grad">>)]]

(* loss = loss_func(model, contexts, targets, src=src): the negative       *)
(* targets are drawn from torch's generator; multinomial raises on a       *)
(* language slice without weight.                                          *)
NSLoss(r) ==
    /\ UNCHANGED <<corpus, reader, order, gb, ns, dl>>
    /\ MayMove(r) /\ run[r].pc = "ns_loss"
    /\ LET rec == run[r]
       IN  IF MultinomialFails(rec.ns.p_src) \/ MultinomialFails(rec.ns.p_trg)
           THEN run' = [run EXCEPT ![r] = [rec EXCEPT !.pc = "crashed"]]
           ELSE run' = [run EXCEPT ![r] =
                    [rec EXCEPT !.pc = "dist_loss",
                         !.torch_rng = RngNext(RngNext(@)),
                         !.trace = Append(@, <<SideOrder[rec.side], "ns_loss">>)]]

(* loss_d = loss_func_dist(model, contexts, src=src); the contexts of a    *)
(* batch have the shape (batch_size, 2 * window_size).                     *)
DistLoss(r) ==
    /\ UNCHANGED <<corpus, reader, order, gb, ns, dl>>
    /\ MayMove(r) /\ run[r].pc = "dist_loss"
    /\ LET rec  == run[r]
           lang == SideOrder[rec.side]
           x    == <<Len(rec.batch[lang][1].contexts), 2 * rec.window_size>>
           u    == UpdateStats(rec.dist, x, lang)
       IN  IF u.raised
           THEN run' = [run EXCEPT ![r] =
                    [rec EXCEPT !.pc = "crashed", !.dist = u.d]]
           ELSE run' = [run EXCEPT ![r] =
                    [rec EXCEPT !.pc = "backward", !.dist = u.d,
                         !.trace = Append(@, <<lang, "dist_loss">>)]]

(* loss.backward() *)
Backward(r) ==
    /\ UNCHANGED <<corpus, reader, order, gb, ns, dl>>
    /\ MayMove(r) /\ run[r].pc = "backward"
    /\ run' = [run EXCEPT ![r] =
           [@ EXCEPT !.pc = "opt_step",
                     !.trace = Append(@, <<SideOrder[run[r].side], "backward">>)]]

(* optimizer.step(): the parameters become a function of what they were,   *)
(* of the batch and of the negative targets drawn for it (kept as the      *)
(* generator state they were drawn from).                                  *)
OptStep(r) ==
    /\ UNCHANGED <<corpus, reader, order, gb, ns, dl>>
    /\ MayMove(r) /\ run[r].pc = "opt_step"
    /\ LET rec  == run[r]
           lang == SideOrder[rec.side]
           nxt  == SidePc(rec.batch, rec.side + 1)
       IN  run' = [run EXCEPT ![r] =
               [rec EXCEPT !.pc = nxt.pc, !.side = nxt.side,
                    !.params = Append(@, [side |-> lang, batch |-> rec.batch[lang][1],
                                          drawn_at |-> rec.torch_rng]),
                    !.opt_steps = @ + 1,
                    !.trace = Append(@, <<lang, "opt_step">>)]]

(* save_embeddings(args.path_output, embs, corpus.i2w) *)
Save(r) ==
    /\ UNCHANGED <<corpus, reader, order, gb, ns, dl>>
    /\ MayMove(r) /\ run[r].pc = "epoch" /\ run[r].ITER >= run[r].n_iters
    /\ run' = [run EXCEPT ![r] =
           [@ EXCEPT !.pc = "done",
                     !.output = <<[i2w |-> run[r].corpus.w2i, embs |-> run[r].params]>>]]

NextMain ==
    \/ \E r \in DOMAIN run : MainStart(r)
    \/ \E r \in DOMAIN run : EpochBegin(r)
    \/ \E r \in DOMAIN run : ZipNext(r)
    \/ \E r \in DOMAIN run : ZeroGrad(r)
    \/ \E r \in DOMAIN run : NSLoss(r)
    \/ \E r \in DOMAIN run : DistLoss(r)
    \/ \E r \in DOMAIN run : Backward(r)
    \/ \E r \in DOMAIN run : OptStep(r)
    \/ \E r \in DOMAIN run : Save(r)

MainArgs ==
    {RunInit(seed, batch_size, window_size, n_iters, file_src, file_trg) :
        seed \in 0..MaxSeed, batch_size \in 1..MaxMainBatch,
        window_size \in MainWindows, n_iters \in 0..MaxIters,
        file_src \in MainFiles, file_trg \in MainFiles}

(* One run of main.                                                        *)
InitMain ==
    /\ \E a \in MainArgs : run = [r \in {1} |-> a]
    /\ corpus = Idle /\ reader = Idle /\ order = <<>>
    /\ gb = Idle /\ ns = Idle /\ dl = Idle

SpecMain == InitMain /\ [][NextMain]_vars

(* Two runs of main with the same seed, corpora and configuration.         *)
InitDet ==
    /\ \E a \in MainArgs : run = [r \in {1, 2} |-> a]
    /\ corpus = Idle /\ reader = Idle /\ order = <<>>
    /\ gb = Idle /\ ns = Idle /\ dl = Idle

SpecDet == InitDet /\ [][NextMain]_vars

(* The number of batches an epoch's generator yields for a side.           *)
NumBatches(rec, l) ==
    ValidPositions(rec.sents[l], rec.window_size) \div rec.batch_size

Max(a, b) == IF a > b THEN a ELSE b

(* The operations of one step, for the batches that are present.           *)
StepOps(batch) ==
    LET ops(l) == IF batch[l] = <<>> THEN <<>>
                  ELSE [k \in 1..Len(BatchOps) |-> <<l, BatchOps[k]>>]
    IN  ops("src") \o ops("trg")

IsPrefix(s, t) == Len(s) <= Len(t) /\ s = SubSeq(t, 1, Len(s))

(* C9: an epoch runs max(num_batches_src, num_batches_trg) steps; in a     *)
(* step the source batch is processed before the target batch, each by     *)
(* zero_grad, negative-sampling loss, alignment loss, backward, optimizer  *)
(* step; so an epoch that is over has performed                            *)
(* num_batches_src + num_batches_trg optimizer steps.                      *)
C9_EpochSteps ==
    \A r \in DOMAIN run :
        LET rec == run[r]
            epochOver == \/ rec.pc = "crashed"
                         \/ rec.pc = "epoch" /\ rec.ITER > 0
        IN  /\ rec.pc \notin {"start"} => IsPrefix(rec.trace, StepOps(rec.batch))
            /\ rec.pc = "zip" /\ rec.steps > 0 => rec.trace = StepOps(rec.batch)
            /\ epochOver =>
                  /\ rec.steps = Max(NumBatches(rec, "src"), NumBatches(rec, "trg"))
                  /\ rec.opt_steps = NumBatches(rec, "src") + NumBatches(rec, "trg")

(* C5: two runs with the same seed, inputs and configuration that have     *)
(* both ended wrote the same output.                                       *)
C5_SameOutput ==
    (DOMAIN run = {1, 2} /\ run[1].pc = "done" /\ run[2].pc = "done") =>
        run[1].output = run[2].output

====
